---- MODULE Spec2Model ----
(***************************************************************************)
(* HemoScan AI front end: the local Session & History Store                *)
(* (services/storage.ts), the Analysis Gateway (services/apiService.ts,    *)
(* services/geminiService.ts) and the Application Controller (App.tsx with *)
(* pages/Auth.tsx, pages/Scan.tsx and the Profile page).                   *)
(*                                                                         *)
(* Three specifications share the variables:                               *)
(*   StoreSpec    the storage service called directly, with any arguments  *)
(*   GatewaySpec  the gateway's pure functions applied to bounded inputs   *)
(*   Spec         the application: every handler of App/Auth/Scan/Profile, *)
(*                each asynchronous handler split at its await             *)
(***************************************************************************)
EXTENDS Integers, Sequences, FiniteSets, TLC

VARIABLES
    localStorage,   \* window.localStorage: key -> stored JSON text
    uuidCount,      \* number of identifiers generateUUID has handed out
    lastCall,       \* StoreSpec: the last storage call and its outcome
    saved,          \* per user id, the results handed to saveScan, in call order
    gw,             \* GatewaySpec: the last gateway input and its outcome
    user,           \* App: useState<User | null>
    currentView,    \* App: useState<ViewState>
    history,        \* App: useState<AnalysisResult[]>
    selectedResult, \* App: useState<AnalysisResult | null>
    isLoadingAuth,  \* App: useState(true), false once the mount effect ran
    auth,           \* Auth: isLoading, error, and the request awaiting its timer
    scan,           \* Scan: capturedImage, isProcessing, error, and the pending analysis
    profile         \* Profile: isUpdating, and the pending share-data update

vars == <<localStorage, uuidCount, lastCall, saved, gw, user, currentView, history,
          selectedResult, isLoadingAuth, auth, scan, profile>>

appVars == <<user, currentView, history, selectedResult, isLoadingAuth, auth, scan, profile>>

(***************************************************************************)
(* Bounds of the model.                                                    *)
(***************************************************************************)
\* rows the users table may hold (StoreSpec; in Spec the emails bound it)
MaxUsers == 2
\* scans saved in one run
MaxScans == 2
\* results the application stores in all (Spec)
MaxAppScans == 1
\* resolution of the Math.random() value that decides the mock hemoglobin
HbRandomSteps == 100
\* resolution of the other Math.random() values
RandomSteps == 4

(***************************************************************************)
(* JavaScript values.  null/undefined are the empty sequence, a present    *)
(* value v is <<v>>.  Numbers are integers in a fixed-point scale; NaN is  *)
(* a value outside every scale, with JavaScript's arithmetic and           *)
(* comparison rules.                                                       *)
(***************************************************************************)
None == <<>>
Some(v) == <<v>>

NaN == 0 - 1000000000
Undefined == 0 - 2000000000

IsNum(x) == x # NaN /\ x # Undefined
\* a - b, a + b : undefined converts to NaN, NaN is absorbing
JsSub(a, b) == IF IsNum(a) /\ IsNum(b) THEN a - b ELSE NaN
JsAdd(a, b) == IF IsNum(a) /\ IsNum(b) THEN a + b ELSE NaN
\* a <= b, a < b : every comparison with NaN is false
JsLe(a, b) == IsNum(a) /\ IsNum(b) /\ a <= b
JsLt(a, b) == IsNum(a) /\ IsNum(b) /\ a < b
\* x || d for a number: undefined, NaN and 0 are falsy
JsOr(x, d) == IF x = Undefined \/ x = NaN \/ x = 0 THEN d ELSE x
\* Math.max / Math.min
MathMax(a, b) == IF ~IsNum(a) \/ ~IsNum(b) THEN NaN ELSE IF a >= b THEN a ELSE b
MathMin(a, b) == IF ~IsNum(a) \/ ~IsNum(b) THEN NaN ELSE IF a <= b THEN a ELSE b

Abs(x) == IF x < 0 THEN 0 - x ELSE x
\* parseFloat(x.toFixed(d)) of a number held in units of 1/scale, where unit
\* is the number of such units in 10^-d: the nearest multiple of unit, the
\* larger magnitude on a tie; NaN.toFixed(d) is "NaN", which parses to NaN
ToFixed(x, unit) ==
    IF ~IsNum(x) THEN NaN
    ELSE LET m == ((Abs(x) + (unit \div 2)) \div unit) * unit
         IN  IF x < 0 THEN 0 - m ELSE m

(***************************************************************************)
(* JSON.stringify / JSON.parse.  The stored text is a tagged copy of the   *)
(* value in which every NaN has become null, as JSON.stringify writes it.  *)
(***************************************************************************)
JSONnull == 0 - 1500000000
JSONnumber(n) == IF n = NaN THEN JSONnull ELSE n

StringifyUser(u) == [u EXCEPT !.age = JSONnumber(u.age), !.createdAt = JSONnumber(u.createdAt)]
StringifyResult(r) ==
    [r EXCEPT !.hb_estimate_g_dl = JSONnumber(r.hb_estimate_g_dl),
              !.hb_ci_95 = <<JSONnumber(r.hb_ci_95[1]), JSONnumber(r.hb_ci_95[2])>>,
              !.confidence = JSONnumber(r.confidence),
              !.tone_group = JSONnumber(r.tone_group)]

\* kind names the TypeScript type of the value written
JSONstringify(kind, v) ==
    CASE kind = "User"   -> [json |-> StringifyUser(v)]
      [] kind = "User[]" -> [json |-> [i \in 1..Len(v) |-> StringifyUser(v[i])]]
      [] kind = "AnalysisResult[]" -> [json |-> [i \in 1..Len(v) |-> StringifyResult(v[i])]]

JSONparse(text) == text.json

(***************************************************************************)
(* window.localStorage                                                     *)
(***************************************************************************)
getItem(ls, key) == IF key \in DOMAIN ls THEN Some(ls[key]) ELSE None
setItem(ls, key, text) == [k \in (DOMAIN ls) \cup {key} |-> IF k = key THEN text ELSE ls[k]]
removeItem(ls, key) == [k \in (DOMAIN ls) \ {key} |-> ls[k]]

\* storage.ts, keys of the simulated tables
USERS_TABLE == "hemoscan_users_table"
CURRENT_SESSION_KEY == "hemoscan_current_session"
HISTORY_TABLE_PREFIX == "hemoscan_history_"

(***************************************************************************)
(* utils/uuid: generateUUID.  A random version-4 identifier; the n-th call *)
(* yields an identifier no earlier call yielded.                           *)
(***************************************************************************)
generateUUID(n) == "uuid-" \o ToString(n + 1)

\* Date.now(): the instants the client clock may show
Timestamps == {1}

(***************************************************************************)
(* storage.ts: storageService.  Each operator is the synchronous body of   *)
(* the method (what runs after its simulated latency); it yields the new   *)
(* localStorage, whether it returned (ok) or threw (error), and the value. *)
(***************************************************************************)
Returned(ls, v) == [ls |-> ls, ok |-> TRUE, value |-> v, error |-> ""]
Threw(ls, msg) == [ls |-> ls, ok |-> FALSE, value |-> None, error |-> msg]

\* usersStr ? JSON.parse(usersStr) : []
ReadUsers(ls) ==
    LET usersStr == getItem(ls, USERS_TABLE)
    IN  IF usersStr # None THEN JSONparse(usersStr[1]) ELSE <<>>

\* register without "Create Session": the row is inserted, the session is not set
registerNoSession(ls, email, password, age, gender, termsAccepted, id, now) ==
    LET users == ReadUsers(ls)
    IN  IF \E i \in 1..Len(users) : users[i].email = email
        THEN Threw(ls, "User already exists with this email.")
        ELSE LET newUser == [id |-> id, email |-> email, password |-> password,
                             age |-> age, gender |-> gender,
                             termsAccepted |-> termsAccepted,
                             createdAt |-> now, shareData |-> FALSE]
             IN  Returned(setItem(ls, USERS_TABLE,
                                  JSONstringify("User[]", Append(users, newUser))),
                          newUser)

register(ls, email, password, age, gender, termsAccepted, id, now) ==
    LET users == ReadUsers(ls)
    IN  IF \E i \in 1..Len(users) : users[i].email = email
        THEN Threw(ls, "User already exists with this email.")
        ELSE LET newUser == [id |-> id, email |-> email, password |-> password,
                             age |-> age, gender |-> gender,
                             termsAccepted |-> termsAccepted,
                             createdAt |-> now, shareData |-> FALSE]
                 ls1 == setItem(ls, USERS_TABLE,
                                JSONstringify("User[]", Append(users, newUser)))
                 ls2 == setItem(ls1, CURRENT_SESSION_KEY, JSONstringify("User", newUser))
             IN  Returned(ls2, newUser)

\* users.find(p): the first row satisfying p
FindLogin(users, email, password) ==
    LET hits == {i \in 1..Len(users) :
                    users[i].email = email /\ users[i].password = password}
    IN  IF hits = {} THEN None
        ELSE Some(users[CHOOSE i \in hits : \A j \in hits : i <= j])

\* login that looks the row up by its email alone
loginByEmail(ls, email, password) ==
    LET users == ReadUsers(ls)
        hits == {i \in 1..Len(users) : users[i].email = email}
    IN  IF hits = {}
        THEN Threw(ls, "Invalid email or password.")
        ELSE LET found == users[CHOOSE i \in hits : \A j \in hits : i <= j]
             IN  Returned(setItem(ls, CURRENT_SESSION_KEY, JSONstringify("User", found)),
                          found)

login(ls, email, password) ==
    LET users == ReadUsers(ls)
        found == FindLogin(users, email, password)
    IN  IF found = None
        THEN Threw(ls, "Invalid email or password.")
        ELSE Returned(setItem(ls, CURRENT_SESSION_KEY, JSONstringify("User", found[1])),
                      found[1])

\* logout that also drops the users table
logoutDropsUsers(ls) ==
    Returned(removeItem(removeItem(ls, CURRENT_SESSION_KEY), USERS_TABLE), None)

\* logout removing the wrong key
logoutWrongKey(ls) == Returned(removeItem(ls, USERS_TABLE), None)

logout(ls) == Returned(removeItem(ls, CURRENT_SESSION_KEY), None)

getCurrentUser(ls) ==
    LET userStr == getItem(ls, CURRENT_SESSION_KEY)
    IN  IF userStr # None THEN Some(JSONparse(userStr[1])) ELSE None

\* updateUser that inserts the user when no row has its id
updateUserUpsert(ls, updatedUser) ==
    LET ls1 == setItem(ls, CURRENT_SESSION_KEY, JSONstringify("User", updatedUser))
        users == ReadUsers(ls1)
        mapped == [i \in 1..Len(users) |->
                      IF users[i].id = updatedUser.id THEN updatedUser ELSE users[i]]
        all == IF \E i \in 1..Len(users) : users[i].id = updatedUser.id THEN mapped
               ELSE Append(users, updatedUser)
    IN  Returned(setItem(ls1, USERS_TABLE, JSONstringify("User[]", all)), None)

\* updateUser without "Update in Users Table": only the session is written
updateUserSessionOnly(ls, updatedUser) ==
    Returned(setItem(ls, CURRENT_SESSION_KEY, JSONstringify("User", updatedUser)), None)

\* updateUser with filter in place of map: the rows of other users are lost
updateUserFilter(ls, updatedUser) ==
    LET ls1 == setItem(ls, CURRENT_SESSION_KEY, JSONstringify("User", updatedUser))
        usersStr == getItem(ls1, USERS_TABLE)
    IN  IF usersStr # None
        THEN LET users == JSONparse(usersStr[1])
                 kept == SelectSeq(users, LAMBDA u : u.id = updatedUser.id)
             IN  Returned(setItem(ls1, USERS_TABLE, JSONstringify("User[]", kept)), None)
        ELSE Returned(ls1, None)

updateUser(ls, updatedUser) ==
    LET ls1 == setItem(ls, CURRENT_SESSION_KEY, JSONstringify("User", updatedUser))
        usersStr == getItem(ls1, USERS_TABLE)
    IN  IF usersStr # None
        THEN LET users == JSONparse(usersStr[1])
                 mapped == [i \in 1..Len(users) |->
                               IF users[i].id = updatedUser.id THEN updatedUser
                               ELSE users[i]]
             IN  Returned(setItem(ls1, USERS_TABLE, JSONstringify("User[]", mapped)), None)
        ELSE Returned(ls1, None)

\* getUserHistory that never finds a list
getUserHistoryEmpty(ls, userId) == <<>>

\* historyStr ? JSON.parse(historyStr) : []
getUserHistory(ls, userId) ==
    LET historyStr == getItem(ls, HISTORY_TABLE_PREFIX \o userId)
    IN  IF historyStr # None THEN JSONparse(historyStr[1]) ELSE <<>>

\* saveScan with unshift in place of push
saveScanUnshift(ls, userId, result) ==
    LET key == HISTORY_TABLE_PREFIX \o userId
        hist == getUserHistory(ls, userId)
    IN  Returned(setItem(ls, key, JSONstringify("AnalysisResult[]", <<result>> \o hist)),
                 None)

\* saveScan that writes the new result alone
saveScanOverwrite(ls, userId, result) ==
    LET key == HISTORY_TABLE_PREFIX \o userId
    IN  Returned(setItem(ls, key, JSONstringify("AnalysisResult[]", <<result>>)), None)

\* saveScan that pushes the result onto every history list there is
saveScanEveryList(ls, userId, result) ==
    LET key == HISTORY_TABLE_PREFIX \o userId
        lists == ((DOMAIN ls) \ {USERS_TABLE, CURRENT_SESSION_KEY}) \cup {key}
    IN  Returned([k \in (DOMAIN ls) \cup {key} |->
                     IF k \in lists
                     THEN JSONstringify("AnalysisResult[]",
                              Append(IF k \in DOMAIN ls THEN JSONparse(ls[k]) ELSE <<>>,
                                     result))
                     ELSE ls[k]],
                 None)

saveScan(ls, userId, result) ==
    LET key == HISTORY_TABLE_PREFIX \o userId
        hist == getUserHistory(ls, userId)
    IN  Returned(setItem(ls, key, JSONstringify("AnalysisResult[]", Append(hist, result))),
                 None)

(***************************************************************************)
(* Strings that the code inspects (labels, error messages) are sequences   *)
(* of one-character strings, so that toLowerCase() and includes() are      *)
(* computed on the characters.                                             *)
(***************************************************************************)
UpperCase == <<"A", "B", "C", "D", "E", "F", "G", "H", "I", "J", "K", "L", "M",
               "N", "O", "P", "Q", "R", "S", "T", "U", "V", "W", "X", "Y", "Z">>
LowerCase == <<"a", "b", "c", "d", "e", "f", "g", "h", "i", "j", "k", "l", "m",
               "n", "o", "p", "q", "r", "s", "t", "u", "v", "w", "x", "y", "z">>
LowerChar(c) ==
    IF \E i \in 1..Len(UpperCase) : UpperCase[i] = c
    THEN LowerCase[CHOOSE i \in 1..Len(UpperCase) : UpperCase[i] = c]
    ELSE c
\* String.prototype.toLowerCase
toLowerCase(str) == [i \in 1..Len(str) |-> LowerChar(str[i])]
\* String.prototype.includes
includes(str, sub) ==
    \E i \in 0..(Len(str) - Len(sub)) : SubSeq(str, i + 1, i + Len(sub)) = sub

\* types.ts: enum AnemiaClass
NORMAL == <<"N", "o", "r", "m", "a", "l">>
MILD == <<"M", "i", "l", "d">>
MODERATE == <<"M", "o", "d", "e", "r", "a", "t", "e">>
SEVERE == <<"S", "e", "v", "e", "r", "e">>
AnemiaClass == {NORMAL, MILD, MODERATE, SEVERE}

(***************************************************************************)
(* apiService.ts: the structured backend.  Hemoglobin values are in        *)
(* thousandths of a g/dL, confidence and uncertainty in thousandths.       *)
(***************************************************************************)
\* mapBackendToFrontend, "Map anemia class", with the comparison order reversed
MapAnemiaClassMildFirst(anemia_class) ==
    LET anemiaLabel == IF anemia_class # None /\ toLowerCase(anemia_class[1]) # <<>>
                       THEN toLowerCase(anemia_class[1]) ELSE <<"n", "o", "r", "m", "a", "l">>
    IN  IF includes(anemiaLabel, <<"m", "i", "l", "d">>) THEN MILD
        ELSE IF includes(anemiaLabel, <<"m", "o", "d", "e", "r", "a", "t", "e">>) THEN MODERATE
        ELSE IF includes(anemiaLabel, <<"s", "e", "v", "e", "r", "e">>) THEN SEVERE
        ELSE NORMAL

\* mapBackendToFrontend, "Map anemia class": prediction.anemia_class is
\* None when the field is missing
MapAnemiaClass(anemia_class) ==
    LET anemiaLabel == IF anemia_class # None /\ toLowerCase(anemia_class[1]) # <<>>
                       THEN toLowerCase(anemia_class[1]) ELSE <<"n", "o", "r", "m", "a", "l">>
    IN  IF includes(anemiaLabel, <<"s", "e", "v", "e", "r", "e">>) THEN SEVERE
        ELSE IF includes(anemiaLabel, <<"m", "o", "d", "e", "r", "a", "t", "e">>) THEN MODERATE
        ELSE IF includes(anemiaLabel, <<"m", "i", "l", "d">>) THEN MILD
        ELSE NORMAL

determineDirection(contribution) ==
    IF JsLt(contribution, 0 - 100) THEN "low"
    ELSE IF JsLt(100, contribution) THEN "high"
    ELSE "normal"

\* s || d for a string held as an option: missing and "" are falsy
StrOr(s, d) == IF s = None \/ s = Some("") THEN d ELSE s[1]

\* one entry of topFeatures.slice(0, 3).map(...)
MapFeature(feature) ==
    [name |-> StrOr(feature.feature_name, StrOr(feature.name, "Unknown")),
     direction |-> determineDirection(JsOr(feature.contribution, 0)),
     impact |-> IF feature.explanation = None \/ feature.explanation = Some("")
                THEN <<"Contribution: ", ToFixed(JsOr(feature.contribution, 0), 1)>>
                ELSE <<feature.explanation[1]>>]

DefaultFeatures ==
    << [name |-> "R_G_ratio", direction |-> "normal", impact |-> <<"Color analysis">>],
       [name |-> "vascular_density", direction |-> "normal",
        impact |-> <<"Blood vessel analysis">>],
       [name |-> "texture", direction |-> "normal", impact |-> <<"Nail bed texture">>] >>

\* a ?? d for a boolean held as an option
Nullish(b, d) == IF b = None THEN d ELSE b[1]

mapBackendToFrontend(backendData, imageUrl, uuid, now) ==
    LET prediction == backendData.prediction
        anemiaClass == MapAnemiaClass(prediction.anemia_class)
        topFeatures == backendData.top_contributing_features
        sliced == SubSeq(topFeatures, 1, IF Len(topFeatures) < 3 THEN Len(topFeatures) ELSE 3)
        mappedFeatures == [i \in 1..Len(sliced) |-> MapFeature(sliced[i])]
        uncertainty == JsOr(prediction.uncertainty, 100)
        confidence == MathMax(500, MathMin(990, JsSub(1000, uncertainty)))
    IN  [id |-> StrOr(backendData.scan_id, uuid),
         timestamp |-> now,
         hb_estimate_g_dl |-> ToFixed(JsOr(prediction.hb_g_per_dl, 12000), 100),
         hb_ci_95 |-> IF prediction.hb_ci_95 # None THEN prediction.hb_ci_95[1]
                      ELSE <<ToFixed(JsSub(prediction.hb_g_per_dl, 900), 100),
                             ToFixed(JsAdd(prediction.hb_g_per_dl, 900), 100)>>,
         anemia_class |-> anemiaClass,
         confidence |-> ToFixed(confidence, 10),
         tone_group |-> JsOr(backendData.tone_cluster, 3),
         quality_flags |-> [sharpness_ok |-> Nullish(backendData.quality.sharpness_ok, TRUE),
                            brightness_ok |-> Nullish(backendData.quality.brightness_ok, TRUE),
                            glare_detected |-> Nullish(backendData.quality.glare_detected, FALSE)],
         explanations |-> IF Len(mappedFeatures) > 0 THEN mappedFeatures ELSE DefaultFeatures,
         imageUrl |-> imageUrl]

\* error messages
MsgValidationFailed == <<"V", "a", "l", "i", "d", "a", "t", "i", "o", "n", " ", "f", "a", "i", "l", "e", "d">>
MsgAnalysisFailed == <<"A", "n", "a", "l", "y", "s", "i", "s", " ", "f", "a", "i", "l", "e", "d">>
MsgFailedToFetch == <<"F", "a", "i", "l", "e", "d", " ", "t", "o", " ", "f", "e", "t", "c", "h">>
MsgBadJson == <<"U", "n", "e", "x", "p", "e", "c", "t", "e", "d", " ", "t", "o", "k", "e", "n", " ", "<", " ", "i", "n", " ", "J", "S", "O", "N", " ", "a", "t", " ", "p", "o", "s", "i", "t", "i", "o", "n", " ", "0">>
MsgNoPrediction == <<"C", "a", "n", "n", "o", "t", " ", "r", "e", "a", "d", " ", "p", "r", "o", "p", "e", "r", "t", "i", "e", "s", " ", "o", "f", " ", "u", "n", "d", "e", "f", "i", "n", "e", "d">>
hand == <<"h", "a", "n", "d">>

Result(r) == [ok |-> TRUE, result |-> Some(r), message |-> <<>>]
Failure(msg) == [ok |-> FALSE, result |-> None, message |-> msg]

\* analyzeNailImage that reports every 400 as "Validation failed"
AnalyzeTryNoDetail(response, base64Image, uuid, now) ==
    IF response.kind = "network_error" THEN Failure(MsgFailedToFetch)
    ELSE IF ~response.parses THEN Failure(MsgBadJson)
    ELSE IF ~(200 <= response.status /\ response.status <= 299)
    THEN Failure(IF response.status = 400 THEN MsgValidationFailed ELSE MsgAnalysisFailed)
    ELSE Result(mapBackendToFrontend(response.data[1], base64Image, uuid, now))

\* the try block of analyzeNailImage: what it returns, or the Error it throws
AnalyzeTry(response, base64Image, uuid, now) ==
    IF response.kind = "network_error" THEN Failure(MsgFailedToFetch)
    ELSE IF ~response.parses THEN Failure(MsgBadJson)
    ELSE IF ~(200 <= response.status /\ response.status <= 299)
    THEN IF response.status = 400
         THEN Failure(IF response.detail = None \/ response.detail = Some(<<>>)
                      THEN MsgValidationFailed ELSE response.detail[1])
         ELSE Failure(IF response.detail = None \/ response.detail = Some(<<>>)
                      THEN MsgAnalysisFailed ELSE response.detail[1])
    ELSE IF response.data = None THEN Failure(MsgNoPrediction)
    ELSE Result(mapBackendToFrontend(response.data[1], base64Image, uuid, now))

\* analyzeNailImage of apiService.ts: the catch block rethrows an Error whose
\* message includes 'hand', and wraps the message of any other in a new Error
ApiAnalyzeNailImage(response, base64Image, uuid, now) ==
    LET t == AnalyzeTry(response, base64Image, uuid, now)
    IN  IF t.ok THEN t
        ELSE IF includes(t.message, hand) THEN t
        ELSE Failure(t.message)

(***************************************************************************)
(* geminiService.ts: the generative path and the mock result generator.    *)
(* A value of Math.random() is a fraction [num, den] with 0 <= num < den.  *)
(***************************************************************************)
\* Math.random() * k, in thousandths
RandomTimes(r, k) == (k * 1000 * r.num) \div r.den

\* a generator that draws the hemoglobin from 8.0 .. 14.0 and names two features
generateMockResultWide(imageUrl, r1, r2, r3, uuid, now) ==
    LET hb == 11000 + (RandomTimes(r1, 6) - 3000)
    IN  [id |-> uuid, timestamp |-> now,
         hb_estimate_g_dl |-> ToFixed(hb, 100),
         hb_ci_95 |-> <<ToFixed(hb - 800, 100), ToFixed(hb + 800, 100)>>,
         anemia_class |-> NORMAL,
         confidence |-> 850 + RandomTimes(r2, 1) \div 10,
         tone_group |-> (RandomTimes(r3, 5) \div 1000) + 1,
         quality_flags |-> [sharpness_ok |-> TRUE, brightness_ok |-> TRUE,
                            glare_detected |-> FALSE],
         explanations |->
            << [name |-> "R_G_ratio", direction |-> "normal",
                impact |-> <<"Healthy coloration">>],
               [name |-> "vascular_density", direction |-> "normal",
                impact |-> <<"Correlation with perfusion">>] >>,
         imageUrl |-> imageUrl]

\* r1, r2, r3: the three Math.random() values, in the order they are drawn
generateMockResult(imageUrl, r1, r2, r3, uuid, now) ==
    LET hb == 11000 + (RandomTimes(r1, 4) - 2000)
        c1 == IF hb < 11000 THEN MILD ELSE NORMAL
        c2 == IF hb < 9500 THEN MODERATE ELSE c1
        anemiaClass == IF hb < 8000 THEN SEVERE ELSE c2
    IN  [id |-> uuid,
         timestamp |-> now,
         hb_estimate_g_dl |-> ToFixed(hb, 100),
         hb_ci_95 |-> <<ToFixed(hb - 800, 100), ToFixed(hb + 800, 100)>>,
         anemia_class |-> anemiaClass,
         confidence |-> 850 + RandomTimes(r2, 1) \div 10,
         tone_group |-> (RandomTimes(r3, 5) \div 1000) + 1,
         quality_flags |-> [sharpness_ok |-> TRUE, brightness_ok |-> TRUE,
                            glare_detected |-> FALSE],
         explanations |->
            << [name |-> "R_G_ratio",
                direction |-> IF hb < 12000 THEN "low" ELSE "normal",
                impact |-> IF hb < 12000 THEN <<"Increases anemia risk">>
                           ELSE <<"Healthy coloration">>],
               [name |-> "vascular_density",
                direction |-> IF hb < 10000 THEN "low" ELSE "normal",
                impact |-> <<"Correlation with perfusion">>],
               [name |-> "lunula_visibility", direction |-> "normal",
                impact |-> <<"Standard morphology">>] >>,
         imageUrl |-> imageUrl]

\* analyzeNailImage of geminiService.ts.  provider.kind is what the call to
\* the content-generation endpoint did: "throws", "empty" (no response text),
\* "unparseable" (JSON.parse throws), "null" (the text is the JSON null, so
\* reading data.hb_estimate_g_dl throws) or "json" with the parsed object in
\* data; whatever is thrown inside the try block is caught
\* analyzeNailImage whose catch rethrows when the provider gave no text
GeminiAnalyzeRethrows(apiKey, provider, base64Image, r1, r2, r3, uuid, now) ==
    IF apiKey # None /\ apiKey # Some("") /\ provider.kind = "empty"
    THEN Failure(<<"N", "o", " ", "r", "e", "s", "p", "o", "n", "s", "e", " ", "f", "r", "o", "m", " ", "A", "I">>)
    ELSE Result(generateMockResult(base64Image, r1, r2, r3, uuid, now))

GeminiAnalyzeNailImage(apiKey, provider, base64Image, r1, r2, r3, uuid, now) ==
    IF apiKey = None \/ apiKey = Some("")
    THEN Result(generateMockResult(base64Image, r1, r2, r3, uuid, now))
    ELSE IF provider.kind # "json"
    THEN Result(generateMockResult(base64Image, r1, r2, r3, uuid, now))
    ELSE LET data == provider.data
             ciLower == JsSub(data.hb_estimate_g_dl, 900)
             ciUpper == JsAdd(data.hb_estimate_g_dl, 900)
         IN  Result([id |-> uuid,
                     timestamp |-> now,
                     hb_estimate_g_dl |-> data.hb_estimate_g_dl,
                     hb_ci_95 |-> <<ToFixed(ciLower, 100), ToFixed(ciUpper, 100)>>,
                     anemia_class |-> data.anemia_class,
                     confidence |-> data.confidence,
                     tone_group |-> data.tone_group,
                     quality_flags |-> data.quality_flags,
                     explanations |-> data.explanations,
                     imageUrl |-> base64Image])

(***************************************************************************)
(* Input domains.                                                          *)
(***************************************************************************)
\* two addresses that differ only in case
Emails == {"a@x.com", "A@x.com"}
RegisterPassword == "secret1"
Passwords == {RegisterPassword, "secret2"}
Ages == {30}
Genders == {"Female"}

\* the identifiers generateUUID can hand out within the bounds
UserIds == {generateUUID(n) : n \in 0..(MaxUsers - 1)}
\* user identifiers a caller may pass: a generated one and one no row has
UserIdArgs == {generateUUID(0), "no-such-id"}

\* every User value a caller may hand to updateUser
UserArgs ==
    [id : UserIds \cup {"no-such-id"},
     email : Emails, password : {RegisterPassword}, age : Ages, gender : Genders,
     termsAccepted : {TRUE}, createdAt : Timestamps, shareData : BOOLEAN]

\* the k-th result a caller hands to saveScan: every scan has an id of its own
\* (the backend's scan_id, or a generated one), so the results are told apart
StoreResult(k) ==
    [id |-> "scan-" \o ToString(k), timestamp |-> 1, hb_estimate_g_dl |-> 12000 + 100 * k,
     hb_ci_95 |-> <<11100 + 100 * k, 12900 + 100 * k>>, anemia_class |-> "Normal",
     confidence |-> 900, tone_group |-> 3]

(***************************************************************************)
(* Initial values of the component state (useState initialisers).          *)
(***************************************************************************)
AuthInit == [isLoading |-> FALSE, error |-> "", pending |-> None]
ScanInit == [capturedImage |-> None, isProcessing |-> FALSE, error |-> None, pending |-> None]
ProfileInit == [isUpdating |-> FALSE, pending |-> None]
GwIdle == [path |-> "none", response |-> None, args |-> None, synthetic |-> FALSE,
           out |-> None]
AppInit ==
    /\ user = None
    /\ currentView = "HOME"
    /\ history = <<>>
    /\ selectedResult = None
    /\ isLoadingAuth = TRUE
    /\ auth = AuthInit
    /\ scan = ScanInit
    /\ profile = ProfileInit

\* an empty localStorage: a browser profile that never ran the application
EmptyStorage == [k \in {} |-> None]

(***************************************************************************)
(* StoreSpec: storageService called directly, in any order, with any       *)
(* arguments of the declared types.                                        *)
(***************************************************************************)
Call(op, r) ==
    [op |-> op, ok |-> r.ok, value |-> r.value, error |-> r.error,
     hadSession |-> getCurrentUser(localStorage) # None]
NoCall == [op |-> "none", ok |-> TRUE, value |-> None, error |-> "", hadSession |-> FALSE]

NothingSaved == [id \in UserIdArgs |-> <<>>]
\* number of results handed to saveScan so far
SavedScans == Len(saved[generateUUID(0)]) + Len(saved["no-such-id"])

StoreInit ==
    /\ localStorage = EmptyStorage
    /\ uuidCount = 0
    /\ lastCall = NoCall
    /\ saved = NothingSaved
    /\ gw = GwIdle
    /\ AppInit

SRegister ==
    \E email \in Emails, age \in Ages, gender \in Genders, now \in Timestamps :
        LET r == register(localStorage, email, RegisterPassword, age, gender, TRUE,
                          generateUUID(uuidCount), now)
        IN  /\ Len(ReadUsers(localStorage)) < MaxUsers
            /\ localStorage' = r.ls
            /\ uuidCount' = IF r.ok THEN uuidCount + 1 ELSE uuidCount
            /\ lastCall' = Call("register", r)
            /\ UNCHANGED <<saved, gw, appVars>>

SLogin ==
    \E email \in Emails, password \in Passwords :
        LET r == login(localStorage, email, password)
        IN  /\ localStorage' = r.ls
            /\ lastCall' = Call("login", r)
            /\ UNCHANGED <<uuidCount, saved, gw, appVars>>

SLogout ==
    LET r == logout(localStorage)
    IN  /\ localStorage' = r.ls
        /\ lastCall' = Call("logout", r)
        /\ UNCHANGED <<uuidCount, saved, gw, appVars>>

SGetCurrentUser ==
    /\ lastCall' = Call("getCurrentUser", Returned(localStorage, getCurrentUser(localStorage)))
    /\ UNCHANGED <<localStorage, uuidCount, saved, gw, appVars>>

SUpdateUserWith(u) ==
    LET r == updateUser(localStorage, u)
    IN  /\ localStorage' = r.ls
        /\ lastCall' = Call("updateUser", r)
        /\ UNCHANGED <<uuidCount, saved, gw, appVars>>

SUpdateUser == \E u \in UserArgs : SUpdateUserWith(u)

SSaveScan ==
    \E userId \in UserIdArgs :
        LET result == StoreResult(SavedScans + 1)
            r == saveScan(localStorage, userId, result)
        IN  /\ SavedScans < MaxScans
            /\ localStorage' = r.ls
            /\ saved' = [saved EXCEPT ![userId] = Append(@, result)]
            /\ lastCall' = Call("saveScan", r)
            /\ UNCHANGED <<uuidCount, gw, appVars>>

SGetUserHistory ==
    \E userId \in UserIdArgs :
        /\ lastCall' = Call("getUserHistory",
                            Returned(localStorage, getUserHistory(localStorage, userId)))
        /\ UNCHANGED <<localStorage, uuidCount, saved, gw, appVars>>

StoreNext ==
    \/ SRegister
    \/ SLogin
    \/ SLogout
    \/ SGetCurrentUser
    \/ SUpdateUser
    \/ SSaveScan
    \/ SGetUserHistory

StoreSpec == StoreInit /\ [][StoreNext]_vars

(***************************************************************************)
(* GatewaySpec: the two analyzeNailImage functions applied to bounded sets *)
(* of backend responses, provider outcomes and Math.random() values.  The  *)
(* functions keep no state between calls, so a behaviour is one call.      *)
(***************************************************************************)
Image == "data:image/jpeg;base64,AAAA"

Random(steps) == [num : 0..(steps - 1), den : {steps}]

\* fragments from which backend labels are put together
LabelFragments ==
    {<<>>, <<"M", "i", "l", "d">>, <<"m", "i", "l", "d">>, <<"M", "I", "L", "D">>, <<"S", "e", "v", "e", "r", "e">>, <<"s", "e", "v", "e", "r", "e">>, <<"S", "E", "V", "E", "R", "E">>, <<"M", "o", "d", "e", "r", "a", "t", "e">>,
     <<"m", "o", "d", "e", "r", "a", "t", "e">>, <<"N", "o", "r", "m", "a", "l">>, <<" ">>, <<"-">>, <<"s", "e", "v", "e", "r">>, <<"m", "i", "l">>, <<"a", "n", "e", "m", "i", "a">>}
LabelArgs ==
    {None} \cup {Some(a \o b) : a \in LabelFragments, b \in LabelFragments}
           \cup {Some(<<"M", "i", "l", "d", " ", "t", "o", " ", "S", "e", "v", "e", "r", "e">>), Some(<<"m", "o", "d", "e", "r", "a", "t", "e", "l", "y", " ", "s", "e", "v", "e", "r", "e">>), Some(<<"m", "i", "l", "d", "/", "m", "o", "d", "e", "r", "a", "t", "e">>)}

NoQuality == [sharpness_ok |-> None, brightness_ok |-> None, glare_detected |-> None]
BadQuality == [sharpness_ok |-> Some(FALSE), brightness_ok |-> Some(FALSE),
               glare_detected |-> Some(TRUE)]

Feature(n, c, e) == [feature_name |-> n, name |-> None, contribution |-> c, explanation |-> e]
FeatureListArgs ==
    LET f1 == Feature(Some("R_G_ratio"), 0 - 342, Some("Low red/green ratio"))
        f2 == Feature(Some("a_star"), 215, None)
        f3 == [feature_name |-> None, name |-> Some("texture"), contribution |-> 40,
               explanation |-> None]
        f4 == Feature(None, Undefined, None)
    IN  {<<>>, <<f1>>, <<f1, f2>>, <<f1, f2, f3>>, <<f1, f2, f3, f4>>, <<f4, f3, f2, f1>>}

BasePrediction ==
    [hb_g_per_dl |-> 12340, hb_ci_95 |-> None, uncertainty |-> 123,
     anemia_class |-> Some(NORMAL)]
BasePayload ==
    [scan_id |-> Some("scan-7"), prediction |-> BasePrediction, quality |-> NoQuality,
     tone_cluster |-> 4, top_contributing_features |-> <<>>]

\* 2xx bodies: each family varies some fields of the base payload
PayloadArgs ==
    {[BasePayload EXCEPT !.prediction.anemia_class = l] : l \in LabelArgs}
    \cup {[BasePayload EXCEPT !.prediction.hb_g_per_dl = hb, !.prediction.hb_ci_95 = ci,
                              !.prediction.uncertainty = u] :
             hb \in {Undefined, 0, 7420, 10960, 12340, 14980},
             ci \in {None, Some(<<11400, 13200>>), Some(<<13200, 11400>>)},
             u \in {Undefined, 0, 50, 123, 400, 700, 1000}}
    \cup {[BasePayload EXCEPT !.scan_id = id, !.quality = q, !.tone_cluster = t,
                              !.top_contributing_features = fs] :
             id \in {None, Some("scan-7")}, q \in {NoQuality, BadQuality},
             t \in {Undefined, 2}, fs \in FeatureListArgs}

DetailArgs ==
    {None, Some(<<>>), Some(<<"N", "o", " ", "h", "a", "n", "d", " ", "d", "e", "t", "e", "c", "t", "e", "d", " ", "i", "n", " ", "i", "m", "a", "g", "e">>), Some(<<"I", "m", "a", "g", "e", " ", "t", "o", "o", " ", "b", "l", "u", "r", "r", "y">>)}

Http(status, parses, detail, data) ==
    [kind |-> "http", status |-> status, parses |-> parses, detail |-> detail, data |-> data]
NetworkError == [kind |-> "network_error", status |-> 0, parses |-> FALSE,
                 detail |-> None, data |-> None]

ResponseArgs ==
    {NetworkError}
    \cup {Http(st, FALSE, None, None) : st \in {200, 400, 500}}
    \cup {Http(st, TRUE, d, None) : st \in {400, 404, 422, 500}, d \in DetailArgs}
    \cup {Http(200, TRUE, None, None)}
    \cup {Http(st, TRUE, None, Some(p)) : st \in {200, 201}, p \in PayloadArgs}

NoProvider == [kind |-> "none", data |-> None]
GeminiData(hb, conf, class) ==
    [hb_estimate_g_dl |-> hb, anemia_class |-> class, confidence |-> conf,
     tone_group |-> 3,
     quality_flags |-> [sharpness_ok |-> TRUE, brightness_ok |-> TRUE,
                        glare_detected |-> FALSE],
     explanations |-> <<[name |-> "pallor", direction |-> "low",
                         impact |-> <<"Reduced perfusion">>]>>]
\* parsed provider objects: the prompt asks for 6.0..17.0 and 0.0..1.0, and
\* nothing checks the answer
GeminiDataArgs ==
    {GeminiData(hb, conf, class) :
        hb \in {Undefined, 6000, 12140, 17000},
        conf \in {Undefined, 0, 870, 1000, 1500, 87000},
        class \in {NORMAL, <<"m", "i", "l", "d", " ", "a", "n", "e", "m", "i", "a">>, <<"S", "e", "v", "e", "r", "e">>}}

R0(steps) == [num |-> 0, den |-> steps]
GeminiArgs ==
    \* no API key, or a provider call that fails: every Math.random() triple
    {[apiKey |-> k.apiKey, provider |-> k.provider, r1 |-> r1, r2 |-> r2, r3 |-> r3] :
        k \in {[apiKey |-> None, provider |-> NoProvider],
               [apiKey |-> Some("key"), provider |-> [kind |-> "throws", data |-> None]],
               [apiKey |-> Some("key"), provider |-> [kind |-> "empty", data |-> None]],
               [apiKey |-> Some("key"), provider |-> [kind |-> "unparseable", data |-> None]],
               [apiKey |-> Some("key"), provider |-> [kind |-> "null", data |-> None]]},
        r1 \in Random(HbRandomSteps), r2 \in Random(RandomSteps), r3 \in Random(RandomSteps)}
    \cup
    \* a parsed provider answer
    {[apiKey |-> Some("key"), provider |-> [kind |-> "json", data |-> Some(d)],
      r1 |-> R0(HbRandomSteps), r2 |-> R0(RandomSteps), r3 |-> R0(RandomSteps)] :
        d \in GeminiDataArgs}

GatewayInit ==
    /\ localStorage = EmptyStorage
    /\ uuidCount = 0
    /\ lastCall = NoCall
    /\ saved = NothingSaved
    /\ gw = GwIdle
    /\ AppInit

\* Scan.tsx (apiService variant): analyzeNailImage(capturedImage)
GStructured ==
    \E response \in ResponseArgs :
        /\ gw = GwIdle
        /\ gw' = [path |-> "structured", response |-> response, args |-> None,
                  synthetic |-> FALSE,
                  out |-> ApiAnalyzeNailImage(response, Image, generateUUID(0), 1)]
        /\ UNCHANGED <<localStorage, uuidCount, lastCall, saved, appVars>>

\* Scan.tsx (geminiService variant): analyzeNailImage(capturedImage)
GGenerative ==
    \E a \in GeminiArgs :
        /\ gw = GwIdle
        /\ gw' = [path |-> "generative", response |-> NetworkError, args |-> Some(a),
                  synthetic |-> (a.provider.kind # "json"),
                  out |-> GeminiAnalyzeNailImage(a.apiKey,
                              [kind |-> a.provider.kind,
                               data |-> IF a.provider.data = None THEN None
                                        ELSE a.provider.data[1]],
                              Image, a.r1, a.r2, a.r3, generateUUID(0), 1)]
        /\ UNCHANGED <<localStorage, uuidCount, lastCall, saved, appVars>>

GatewayNext ==
    \/ GStructured
    \/ GGenerative

GatewaySpec == GatewayInit /\ [][GatewayNext]_vars

(***************************************************************************)
(* Spec: the application.  App.tsx holds user, currentView, history and    *)
(* selectedResult; Auth, Scan and Profile hold their own state while they  *)
(* are mounted.  An asynchronous handler is two steps: the part before its *)
(* await, which leaves a pending request, and the part after it, which     *)
(* runs to the end when the timer or the network answers.  A pending       *)
(* request keeps the values its closure captured; it is live while the     *)
(* component instance that issued it is still mounted (setState of an      *)
(* unmounted instance does nothing).                                       *)
(***************************************************************************)
ViewState == {"HOME", "SCAN", "HISTORY", "RESULT", "PROFILE"}

\* identifiers generateUUID can hand out in Spec: one per email
SpecIds == {generateUUID(n) : n \in 0..(Cardinality(Emails) - 1)}

\* what App renders (App.tsx, lines 92-104 and renderContent)
AuthMounted(u, loading) == ~loading /\ u = None
ScanMounted(u, view) == u # None /\ view = "SCAN"
ProfileMounted(u, view) == u # None /\ view = "PROFILE"

Detach(pending) == IF pending = None THEN None ELSE Some([pending[1] EXCEPT !.live = FALSE])
\* the state of a component after a step: kept while its instance stays
\* mounted, otherwise the initial state of the next instance
Settle(c, wasMounted, isMounted, init) ==
    IF wasMounted /\ isMounted THEN c ELSE [init EXCEPT !.pending = Detach(c.pending)]

\* the new values of App's state and of the components' state
Commit(u, view, h, sel, a, sc, p) ==
    /\ user' = u
    /\ currentView' = view
    /\ history' = h
    /\ selectedResult' = sel
    /\ auth' = Settle(a, AuthMounted(user, isLoadingAuth), AuthMounted(u, FALSE), AuthInit)
    /\ scan' = Settle(sc, ScanMounted(user, currentView), ScanMounted(u, view), ScanInit)
    /\ profile' = Settle(p, ProfileMounted(user, currentView), ProfileMounted(u, view),
                         ProfileInit)

SpecInit ==
    /\ localStorage = EmptyStorage
    /\ uuidCount = 0
    /\ lastCall = NoCall
    /\ saved = [id \in SpecIds |-> <<>>]
    /\ gw = GwIdle
    /\ AppInit

\* App.tsx, useEffect on mount: restore the session and preload its history
AppMount ==
    /\ isLoadingAuth
    /\ LET currentUser == getCurrentUser(localStorage)
       IN  IF currentUser # None
           THEN Commit(currentUser, currentView,
                       getUserHistory(localStorage, currentUser[1].id),
                       selectedResult, auth, scan, profile)
           ELSE Commit(user, currentView, history, selectedResult, auth, scan, profile)
    /\ isLoadingAuth' = FALSE
    /\ UNCHANGED <<localStorage, uuidCount, lastCall, saved, gw>>

\* the page is loaded again: component state and pending requests are gone,
\* localStorage stays
Reload ==
    /\ ~isLoadingAuth
    /\ user' = None
    /\ currentView' = "HOME"
    /\ history' = <<>>
    /\ selectedResult' = None
    /\ isLoadingAuth' = TRUE
    /\ auth' = AuthInit
    /\ scan' = ScanInit
    /\ profile' = ProfileInit
    /\ UNCHANGED <<localStorage, uuidCount, lastCall, saved, gw>>

(***************************************************************************)
(* Auth.tsx                                                                *)
(***************************************************************************)
\* the regular expression of validateEmail, on the addresses the form offers
validateEmail(email) == email \in Emails
\* password.length
PasswordLength == [p \in Passwords \cup {"short"} |-> IF p = "short" THEN 5 ELSE 7]
\* parseInt(age) of the age field, a string
ParseInt == [a \in {"30"} |-> 30]

FormArgs ==
    [isLogin : {TRUE}, email : Emails \cup {"nobody"}, password : Passwords \cup {"short"},
     age : {""}, gender : Genders, termsAccepted : {FALSE}]
    \cup
    [isLogin : {FALSE}, email : Emails \cup {"nobody"}, password : {RegisterPassword, "short"},
     age : {"", "30"}, gender : Genders, termsAccepted : BOOLEAN]

\* handleSubmit up to its await
AuthSubmit ==
    \E form \in FormArgs :
        /\ AuthMounted(user, isLoadingAuth)
        /\ ~auth.isLoading
        /\ auth.pending = None
        /\ LET failed(msg) == [auth EXCEPT !.error = msg, !.isLoading = FALSE]
               a == IF ~validateEmail(form.email)
                    THEN failed("Please enter a valid email address.")
                    ELSE IF PasswordLength[form.password] < 6
                    THEN failed("Password must be at least 6 characters long.")
                    ELSE IF ~form.isLogin /\ ~form.termsAccepted
                    THEN failed("You must agree to the Terms & Privacy Policy to continue.")
                    ELSE IF ~form.isLogin /\ (form.age = "" \/ ParseInt[form.age] < 0
                                              \/ ParseInt[form.age] > 120)
                    THEN failed("Please enter a valid age.")
                    ELSE [isLoading |-> TRUE, error |-> "",
                          pending |-> Some([form |-> form, live |-> TRUE])]
           IN  Commit(user, currentView, history, selectedResult, a, scan, profile)
        /\ UNCHANGED <<localStorage, uuidCount, lastCall, saved, gw, isLoadingAuth>>

\* the storage call a pending form makes, on the localStorage it finds
AuthCall(ls, form, uuid, now) ==
    IF form.isLogin THEN login(ls, form.email, form.password)
    ELSE register(ls, form.email, form.password, ParseInt[form.age], form.gender,
                  form.termsAccepted, uuid, now)

\* handleSubmit after its await: storageService.login / register run, then
\* onLogin(user) (App.handleLogin) or setError, then setIsLoading(false)
AuthComplete ==
    \E now \in Timestamps :
        /\ auth.pending # None
        /\ LET req == auth.pending[1]
               r == AuthCall(localStorage, req.form, generateUUID(uuidCount), now)
               done == IF req.live
                       THEN [isLoading |-> FALSE,
                             error |-> IF r.ok THEN auth.error
                                       ELSE IF r.error = "" THEN "Authentication failed"
                                       ELSE r.error,
                             pending |-> None]
                       ELSE [auth EXCEPT !.pending = None]
           IN  /\ localStorage' = r.ls
               /\ uuidCount' = IF r.ok /\ ~req.form.isLogin THEN uuidCount + 1 ELSE uuidCount
               /\ IF r.ok
                  THEN Commit(Some(r.value), "HOME", getUserHistory(r.ls, r.value.id),
                              selectedResult, done, scan, profile)
                  ELSE Commit(user, currentView, history, selectedResult, done, scan, profile)
        /\ UNCHANGED <<lastCall, saved, gw, isLoadingAuth>>

(***************************************************************************)
(* Layout, Home, History, ClinicalDashboard: navigation                    *)
(***************************************************************************)
\* Layout.tsx: the bottom navigation, onChangeView(item.id)
Navigate ==
    \E view \in {"HOME", "SCAN", "HISTORY", "PROFILE"} :
        /\ user # None
        /\ view # currentView
        /\ Commit(user, view, history, selectedResult, auth, scan, profile)
        /\ UNCHANGED <<localStorage, uuidCount, lastCall, saved, gw, isLoadingAuth>>

\* the Home page is shown for HOME, and for RESULT without a selected result
HomeShown == user # None /\ (currentView = "HOME" \/ (currentView = "RESULT" /\ selectedResult = None))
\* lastResult, as App passes it to Home
HomeLastResult == IF currentView = "HOME" /\ Len(history) > 0 THEN Some(history[Len(history)]) ELSE None

\* Home: "View Full Report", rendered when lastResult is set
HomeViewReport ==
    /\ HomeShown
    /\ HomeLastResult # None
    /\ Commit(user, "RESULT", history, selectedResult, auth, scan, profile)
    /\ UNCHANGED <<localStorage, uuidCount, lastCall, saved, gw, isLoadingAuth>>

\* Home: "Start Scan"
HomeStartScan ==
    /\ HomeShown
    /\ Commit(user, "SCAN", history, selectedResult, auth, scan, profile)
    /\ UNCHANGED <<localStorage, uuidCount, lastCall, saved, gw, isLoadingAuth>>

\* ClinicalDashboard: onBack
ResultBack ==
    /\ user # None
    /\ currentView = "RESULT"
    /\ selectedResult # None
    /\ Commit(user, "HOME", history, selectedResult, auth, scan, profile)
    /\ UNCHANGED <<localStorage, uuidCount, lastCall, saved, gw, isLoadingAuth>>

\* a selection that also empties the in-memory history
SelectEntryForgets(i) ==
    /\ user # None
    /\ currentView = "HISTORY"
    /\ Commit(user, "RESULT", <<>>, Some(history[i]), auth, scan, profile)
    /\ UNCHANGED <<localStorage, uuidCount, lastCall, saved, gw, isLoadingAuth>>

\* App.handleSelectFromHistory, from an entry of the History page
SelectEntry(i) ==
    /\ user # None
    /\ currentView = "HISTORY"
    /\ Commit(user, "RESULT", history, Some(history[i]), auth, scan, profile)
    /\ UNCHANGED <<localStorage, uuidCount, lastCall, saved, gw, isLoadingAuth>>

SelectFromHistory == \E i \in 1..Len(history) : SelectEntry(i)

(***************************************************************************)
(* Scan.tsx                                                                *)
(***************************************************************************)
\* capturePhoto, or handleFileUpload with an image file
ScanCapture ==
    /\ ScanMounted(user, currentView)
    /\ scan.capturedImage = None
    /\ Commit(user, currentView, history, selectedResult, auth,
              [scan EXCEPT !.capturedImage = Some(Image)], profile)
    /\ UNCHANGED <<localStorage, uuidCount, lastCall, saved, gw, isLoadingAuth>>

\* handleRetake
ScanRetake ==
    /\ ScanMounted(user, currentView)
    /\ scan.capturedImage # None
    /\ ~scan.isProcessing
    /\ Commit(user, currentView, history, selectedResult, auth,
              [scan EXCEPT !.capturedImage = None, !.error = None], profile)
    /\ UNCHANGED <<localStorage, uuidCount, lastCall, saved, gw, isLoadingAuth>>

\* onCancel
ScanCancel ==
    /\ ScanMounted(user, currentView)
    /\ Commit(user, "HOME", history, selectedResult, auth, scan, profile)
    /\ UNCHANGED <<localStorage, uuidCount, lastCall, saved, gw, isLoadingAuth>>

\* handleAnalyze up to its await; onResult is App.handleScanComplete of the
\* render the button was pressed in, whose closure holds that render's user
ScanAnalyze ==
    /\ ScanMounted(user, currentView)
    /\ scan.capturedImage # None
    /\ ~scan.isProcessing
    /\ scan.pending = None
    /\ Commit(user, currentView, history, selectedResult, auth,
              [scan EXCEPT !.isProcessing = TRUE, !.error = None,
                           !.pending = Some([user |-> user[1],
                                             image |-> scan.capturedImage[1],
                                             live |-> TRUE])],
              profile)
    /\ UNCHANGED <<localStorage, uuidCount, lastCall, saved, gw, isLoadingAuth>>

\* number of results handed to saveScan so far, over all users
RECURSIVE SumLen(_, _)
SumLen(f, ids) ==
    IF ids = {} THEN 0
    ELSE LET id == CHOOSE x \in ids : TRUE IN Len(f[id]) + SumLen(f, ids \ {id})
TotalSaved == SumLen(saved, DOMAIN saved)

\* answers of the backend to POST /api/v1/scan; it numbers the scans it accepts
AppResponses ==
    {NetworkError,
     Http(400, TRUE, Some(<<"N", "o", " ", "h", "a", "n", "d", " ", "d", "e", "t", "e", "c", "t", "e", "d", " ", "i", "n", " ", "i", "m", "a", "g", "e">>), None),
     Http(200, TRUE, None,
          Some([BasePayload EXCEPT !.scan_id = Some("scan-" \o ToString(TotalSaved + 1))]))}

\* handleAnalyze that, when analyzeNailImage fails, shows the error and sends
\* the request again
ScanAnalyzeRetries(response, now) ==
    /\ scan.pending # None
    /\ LET req == scan.pending[1]
           out == ApiAnalyzeNailImage(response, req.image, generateUUID(uuidCount), now)
           done == IF req.live
                   THEN IF out.ok
                        THEN [scan EXCEPT !.isProcessing = FALSE, !.pending = None]
                        ELSE [scan EXCEPT !.error = Some(out.message)]
                   ELSE IF out.ok THEN [scan EXCEPT !.pending = None]
                        ELSE [scan EXCEPT !.pending = Some([req EXCEPT !.image = "again"])]
       IN  /\ out.ok => TotalSaved < MaxAppScans
           /\ uuidCount' = IF out.ok /\ out.result[1].id = generateUUID(uuidCount)
                           THEN uuidCount + 1 ELSE uuidCount
           /\ IF out.ok
              THEN LET result == out.result[1]
                       r == saveScan(localStorage, req.user.id, result)
                   IN  /\ localStorage' = r.ls
                       /\ saved' = [saved EXCEPT ![req.user.id] = Append(@, result)]
                       /\ Commit(user, "RESULT", Append(history, result), Some(result),
                                 auth, done, profile)
              ELSE /\ Commit(user, currentView, history, selectedResult, auth, done, profile)
                   /\ UNCHANGED <<localStorage, saved>>
    /\ UNCHANGED <<lastCall, gw, isLoadingAuth>>

\* handleAnalyze after its await: analyzeNailImage answers, then
\* onResult(result) (App.handleScanComplete) or setError, then
\* setIsProcessing(false)
ScanAnalyzeAnswered(response, now) ==
    /\ scan.pending # None
    /\ LET req == scan.pending[1]
           out == ApiAnalyzeNailImage(response, req.image, generateUUID(uuidCount), now)
           done == IF req.live
                   THEN [scan EXCEPT !.isProcessing = FALSE, !.pending = None,
                                     !.error = IF out.ok THEN @ ELSE Some(out.message)]
                   ELSE [scan EXCEPT !.pending = None]
       IN  /\ out.ok => TotalSaved < MaxAppScans
           /\ uuidCount' = IF out.ok /\ out.result[1].id = generateUUID(uuidCount)
                           THEN uuidCount + 1 ELSE uuidCount
           /\ IF out.ok
              THEN LET result == out.result[1]
                       r == saveScan(localStorage, req.user.id, result)
                   IN  /\ localStorage' = r.ls
                       /\ saved' = [saved EXCEPT ![req.user.id] = Append(@, result)]
                       /\ Commit(user, "RESULT", Append(history, result), Some(result),
                                 auth, done, profile)
              ELSE /\ Commit(user, currentView, history, selectedResult, auth, done, profile)
                   /\ UNCHANGED <<localStorage, saved>>
    /\ UNCHANGED <<lastCall, gw, isLoadingAuth>>

ScanAnalyzeComplete ==
    \E response \in AppResponses, now \in Timestamps : ScanAnalyzeAnswered(response, now)

(***************************************************************************)
(* Profile.tsx                                                             *)
(***************************************************************************)
\* handleLogout: storageService.logout(), then App.handleLogout
ProfileLogout ==
    /\ ProfileMounted(user, currentView)
    /\ LET r == logout(localStorage)
       IN  localStorage' = r.ls
    /\ Commit(None, "HOME", <<>>, None, auth, scan, profile)
    /\ UNCHANGED <<uuidCount, lastCall, saved, gw, isLoadingAuth>>

\* toggleShareData up to its await: updatedUser is built from the user prop
\* of the render the button was pressed in
ProfileToggle ==
    /\ ProfileMounted(user, currentView)
    /\ ~profile.isUpdating
    /\ profile.pending = None
    /\ Commit(user, currentView, history, selectedResult, auth, scan,
              [isUpdating |-> TRUE,
               pending |-> Some([updatedUser |-> [user[1] EXCEPT !.shareData = ~@],
                                 live |-> TRUE])])
    /\ UNCHANGED <<localStorage, uuidCount, lastCall, saved, gw, isLoadingAuth>>

\* toggleShareData after its await: storageService.updateUser runs, then
\* onUpdateUser(updatedUser) (App.handleUserUpdate), then setIsUpdating(false)
ProfileToggleComplete ==
    /\ profile.pending # None
    /\ LET req == profile.pending[1]
           r == updateUser(localStorage, req.updatedUser)
           done == IF req.live THEN [isUpdating |-> FALSE, pending |-> None]
                   ELSE [profile EXCEPT !.pending = None]
       IN  /\ localStorage' = r.ls
           /\ Commit(Some(req.updatedUser), currentView, history, selectedResult, auth, scan,
                     done)
    /\ UNCHANGED <<uuidCount, lastCall, saved, gw, isLoadingAuth>>

Next ==
    \/ AppMount
    \/ Reload
    \/ AuthSubmit
    \/ AuthComplete
    \/ Navigate
    \/ HomeViewReport
    \/ HomeStartScan
    \/ ResultBack
    \/ SelectFromHistory
    \/ ScanCapture
    \/ ScanRetake
    \/ ScanCancel
    \/ ScanAnalyze
    \/ ScanAnalyzeComplete
    \/ ProfileLogout
    \/ ProfileToggle
    \/ ProfileToggleComplete

Spec == SpecInit /\ [][Next]_vars

\* the promise of analyzeNailImage settles: fetch resolves or rejects, and the
\* continuation of handleAnalyze is run
FairSpec == Spec /\ WF_vars(ScanAnalyzeComplete)

(***************************************************************************)
(* Claims about the Session & History Store, checked under StoreSpec.      *)
(***************************************************************************)
DuplicateEmailError == "User already exists with this email."

\* C1: in every reachable state no two rows of the users table have the same
\* email, and a register call with the email of an existing row fails with
\* the duplicate-email error.
C1_EmailUnique ==
    LET users == ReadUsers(localStorage)
    IN  /\ \A i, j \in 1..Len(users) : i # j => users[i].email # users[j].email
        /\ \A email \in Emails :
              (\E i \in 1..Len(users) : users[i].email = email) =>
                  LET r == register(localStorage, email, RegisterPassword, 30, "Female",
                                    TRUE, generateUUID(uuidCount), 1)
                  IN  ~r.ok /\ r.error = DuplicateEmailError /\ r.ls = localStorage

\* C2: after logout() has returned, getCurrentUser() returns none whatever the
\* state before was, and a second logout() leaves the store as the first left it.
C2_LogoutClearsSession ==
    lastCall.op = "logout" =>
        /\ lastCall.ok
        /\ getCurrentUser(localStorage) = None
        /\ logout(localStorage).ls = localStorage

\* a logout that found a session, on a store holding a registered user
C2_Witness ==
    /\ lastCall.op = "logout"
    /\ lastCall.hadSession
    /\ Len(ReadUsers(localStorage)) > 0
    /\ getCurrentUser(localStorage) = None

\* C3: a successful register returns a user with the given fields, a fresh id
\* and shareData = false, appends exactly that row to the end of the users
\* table and sets the session to it, so getCurrentUser() returns that user.
C3_RegisterCreatesUser ==
    /\ \A email \in Emails, password \in Passwords, age \in Ages, gender \in Genders,
          termsAccepted \in BOOLEAN, now \in Timestamps :
          LET users == ReadUsers(localStorage)
              id == generateUUID(uuidCount)
              r == register(localStorage, email, password, age, gender,
                            termsAccepted, id, now)
          IN  r.ok =>
                /\ r.value = [id |-> id, email |-> email, password |-> password,
                              age |-> age, gender |-> gender,
                              termsAccepted |-> termsAccepted, createdAt |-> now,
                              shareData |-> FALSE]
                /\ \A i \in 1..Len(users) : users[i].id # id
                /\ ReadUsers(r.ls) = Append(users, r.value)
                /\ getCurrentUser(r.ls) = Some(r.value)
    /\ (lastCall.op = "register" /\ lastCall.ok) =>
          LET users == ReadUsers(localStorage)
          IN  /\ Len(users) > 0
              /\ users[Len(users)] = lastCall.value
              /\ lastCall.value.shareData = FALSE
              /\ getCurrentUser(localStorage) = Some(lastCall.value)

\* a second user has just registered: the new row is last and is the session
C3_Witness ==
    /\ lastCall.op = "register"
    /\ lastCall.ok
    /\ Len(ReadUsers(localStorage)) = 2
    /\ getCurrentUser(localStorage) = Some(ReadUsers(localStorage)[2])

\* C5: getUserHistory(userId) is the list of the results saved for userId in
\* call order (empty when none was saved), and two further saves R1, R2 yield
\* the previous list followed by R1, R2.
C5_HistoryOrder ==
    /\ \A userId \in UserIdArgs :
          LET h == getUserHistory(localStorage, userId)
              R1 == StoreResult(SavedScans + 1)
              R2 == StoreResult(SavedScans + 2)
              ls1 == saveScan(localStorage, userId, R1).ls
              ls2 == saveScan(ls1, userId, R2).ls
          IN  /\ h = saved[userId]
              /\ getUserHistory(ls1, userId) = Append(h, R1)
              /\ getUserHistory(ls2, userId) = h \o <<R1, R2>>
    /\ lastCall.op = "getUserHistory" =>
          \E userId \in UserIdArgs : lastCall.value = saved[userId]

\* getUserHistory has returned [R1, R2] after two saves for one user
C5_Witness ==
    /\ lastCall.op = "getUserHistory"
    /\ lastCall.value = <<StoreResult(1), StoreResult(2)>>

(***************************************************************************)
(* Claims about the Analysis Gateway, checked under GatewaySpec.           *)
(***************************************************************************)
Returns == gw.path # "none" /\ gw.out.ok
TheResult == gw.out.result[1]

\* C8: every AnalysisResult returned by analyze (structured path, generative
\* path, synthetic generator) has hb_ci_95[0] <= hb_ci_95[1] and
\* 0 <= confidence <= 1.
C8_ResultInvariant ==
    Returns =>
        /\ JsLe(TheResult.hb_ci_95[1], TheResult.hb_ci_95[2])
        /\ JsLe(0, TheResult.confidence)
        /\ JsLe(TheResult.confidence, 1000)

\* the class the fixed thresholds give a hemoglobin estimate
ThresholdClass(estimate) ==
    IF estimate >= 11000 THEN NORMAL
    ELSE IF estimate >= 9500 THEN MILD
    ELSE IF estimate >= 8000 THEN MODERATE
    ELSE SEVERE

\* C9: in every result of the synthetic generator the anemia class is the
\* one the thresholds give the reported (one-decimal) hemoglobin estimate.
C9_MockClassAgrees ==
    (Returns /\ gw.synthetic) =>
        TheResult.anemia_class = ThresholdClass(TheResult.hb_estimate_g_dl)

\* label contains word, compared without regard to case
ContainsNoCase(label, word) ==
    \E i \in 0..(Len(label) - Len(word)) :
        \A j \in 1..Len(word) : LowerChar(label[i + j]) = LowerChar(word[j])

\* C10: on the structured path a label containing "severe" maps to Severe,
\* else one containing "moderate" to Moderate, else one containing "mild" to
\* Mild, and any other or missing label to Normal (case-insensitively).
C10_LabelPriority ==
    (Returns /\ gw.path = "structured") =>
        LET given == gw.response.data[1].prediction.anemia_class
            label == IF given = None THEN <<>> ELSE given[1]
        IN  TheResult.anemia_class =
                IF ContainsNoCase(label, <<"s", "e", "v", "e", "r", "e">>) THEN SEVERE
                ELSE IF ContainsNoCase(label, <<"m", "o", "d", "e", "r", "a", "t", "e">>) THEN MODERATE
                ELSE IF ContainsNoCase(label, <<"m", "i", "l", "d">>) THEN MILD
                ELSE NORMAL

\* the label "Mild to Severe", which also contains "mild", was mapped to Severe
C10_Witness ==
    /\ Returns
    /\ gw.path = "structured"
    /\ gw.response.data[1].prediction.anemia_class = Some(<<"M", "i", "l", "d", " ", "t", "o", " ", "S", "e", "v", "e", "r", "e">>)
    /\ TheResult.anemia_class = SEVERE

\* the body of the 2xx answer of a structured call
ThePayload == gw.response.data[1]

\* C11: on the structured path the normalized explanation list has at most
\* three entries, the first three supplied in order, and has exactly three
\* entries whenever the backend supplies fewer than three features.
C11_ExplanationsPadded ==
    (Returns /\ gw.path = "structured") =>
        LET supplied == ThePayload.top_contributing_features
            list == TheResult.explanations
        IN  /\ Len(list) <= 3
            /\ Len(supplied) >= 3 => list = [i \in 1..3 |-> MapFeature(supplied[i])]
            /\ Len(supplied) < 3 => Len(list) = 3

\* the generative path was called with no credential configured
NoCredentialCall == gw.path = "generative" /\ gw.args[1].apiKey = None

\* C12 (as stated): with no credential the generative path returns a result
\* with hb estimate in [9.0, 13.0], every quality flag true (glare_detected
\* included) and exactly three explanation entries.
C12_MockAllFlagsTrue ==
    NoCredentialCall =>
        /\ Returns
        /\ 9000 <= TheResult.hb_estimate_g_dl /\ TheResult.hb_estimate_g_dl <= 13000
        /\ TheResult.quality_flags.sharpness_ok
        /\ TheResult.quality_flags.brightness_ok
        /\ TheResult.quality_flags.glare_detected
        /\ Len(TheResult.explanations) = 3

\* C12 (amended): with no credential the generative path returns a result
\* with hb estimate in [9.0, 13.0], every quality flag passing (sharpness_ok
\* and brightness_ok true, glare_detected false) and exactly three
\* explanation entries.
C12_MockFlagsPassing ==
    NoCredentialCall =>
        /\ Returns
        /\ 9000 <= TheResult.hb_estimate_g_dl /\ TheResult.hb_estimate_g_dl <= 13000
        /\ TheResult.quality_flags.sharpness_ok
        /\ TheResult.quality_flags.brightness_ok
        /\ ~TheResult.quality_flags.glare_detected
        /\ Len(TheResult.explanations) = 3

\* a call without credential returned the largest estimate, 13.0
C12_Witness ==
    /\ NoCredentialCall
    /\ Returns
    /\ TheResult.hb_estimate_g_dl = 13000

\* C13: on the generative path analyze never propagates an error: whatever
\* the provider call did, the call returns an AnalysisResult, and when the
\* credential is missing or the call, the response text or its parsing failed,
\* that result is the synthetic one.
C13_FallbackNeverThrows ==
    gw.path = "generative" =>
        LET a == gw.args[1]
        IN  /\ gw.out.ok
            /\ gw.out.result # None
            /\ (a.apiKey = None \/ a.provider.kind # "json")
                   => gw.out = Result(generateMockResult(Image, a.r1, a.r2, a.r3,
                                                         generateUUID(0), 1))

\* the provider answered with no text, and a synthetic result came back
C13_Witness ==
    /\ gw.path = "generative"
    /\ gw.args[1].apiKey # None
    /\ gw.args[1].provider.kind = "empty"
    /\ gw.out.ok
    /\ gw.synthetic

\* the answer is a 2xx response
IsSuccess(response) ==
    response.kind = "http" /\ 200 <= response.status /\ response.status <= 299
\* the answer is a validation failure: a 4xx response carrying a detail
IsValidationFailure(response) ==
    /\ response.kind = "http" /\ 400 <= response.status /\ response.status <= 499
    /\ response.parses /\ response.detail # None /\ response.detail # Some(<<>>)

\* on the structured path every failure is raised and a result is returned
\* only for a 2xx response
StructuredFailuresRaise ==
    gw.path = "structured" =>
        /\ gw.out.ok => (IsSuccess(gw.response) /\ gw.out.result # None)
        /\ (gw.response.kind = "network_error" \/ ~gw.response.parses
            \/ ~IsSuccess(gw.response)) => (~gw.out.ok /\ gw.out.result = None)

\* C14: on the structured path analyze never fabricates a result: every
\* failure (network failure, malformed JSON, any non-2xx response) is raised,
\* a result is returned only for a 2xx response, and a non-2xx response other
\* than a validation failure is raised as a generic analysis failure, that is
\* with a message that does not mark it as a validation error (no "hand").
C14_StructuredErrors ==
    /\ StructuredFailuresRaise
    /\ (gw.path = "structured" /\ gw.response.kind = "http" /\ gw.response.parses
        /\ ~IsSuccess(gw.response) /\ ~IsValidationFailure(gw.response))
           => (~gw.out.ok /\ ~includes(gw.out.message, hand))

\* C20: on the structured path the confidence is clamp(1 - uncertainty, 0.5,
\* 0.99) rounded to two decimals for every supplied uncertainty in [0, 1]:
\* uncertainty 0 gives 0.99 and uncertainty 1 gives 0.5.
C20_ConfidenceFromUncertainty ==
    (Returns /\ gw.path = "structured") =>
        LET u == ThePayload.prediction.uncertainty
            c == 1000 - u
            clamped == IF c < 500 THEN 500 ELSE IF c > 990 THEN 990 ELSE c
        IN  (IsNum(u) /\ 0 <= u /\ u <= 1000) => TheResult.confidence = ToFixed(clamped, 10)

(***************************************************************************)
(* Claims about the application.                                           *)
(***************************************************************************)
IsPrefix(a, b) == Len(a) <= Len(b) /\ SubSeq(b, 1, Len(a)) = a

\* a step in which a pending sign-in or sign-up is answered
AuthAnsweredStep == auth.pending # None /\ auth'.pending = None /\ ~isLoadingAuth'
\* the attempt fails: no row matches both email and credential (login), or the
\* email is already used (register)
AttemptFails(ls, form) ==
    LET users == ReadUsers(ls)
    IN  IF form.isLogin
        THEN ~\E i \in 1..Len(users) :
                 users[i].email = form.email /\ users[i].password = form.password
        ELSE \E i \in 1..Len(users) : users[i].email = form.email

\* C4: every failed authentication attempt (a login no row matches in both
\* email and credential, a register with a used email) raises an error,
\* creates no session, leaves the users table and the session pointer as they
\* were, and does not reach onLogin: the in-memory user, view and history stay
\* as they were, and the form that is still shown has no user and shows the
\* error.
C4_FailedAuthChangesNothing ==
    [][(AuthAnsweredStep /\ AttemptFails(localStorage, auth.pending[1].form))
       => /\ getItem(localStorage', USERS_TABLE) = getItem(localStorage, USERS_TABLE)
          /\ getItem(localStorage', CURRENT_SESSION_KEY)
                 = getItem(localStorage, CURRENT_SESSION_KEY)
          /\ localStorage' = localStorage
          /\ user' = user /\ currentView' = currentView /\ history' = history
          /\ auth.pending[1].live
                 => /\ user' = None
                    /\ ~auth'.isLoading
                    /\ auth'.error = IF auth.pending[1].form.isLogin
                                     THEN "Invalid email or password."
                                     ELSE DuplicateEmailError]_vars

\* a login with a wrong credential has failed while both emails are registered:
\* the form shows the error, nobody is signed in, no session exists
C4_Witness ==
    /\ auth.error = "Invalid email or password."
    /\ auth.pending = None
    /\ user = None
    /\ getCurrentUser(localStorage) = None
    /\ Len(ReadUsers(localStorage)) = Cardinality(Emails)

\* C6: each user's persisted history is append-only: whatever operations are
\* interleaved (saveScan, register, login, logout, updateUser), every step
\* leaves the history of every user with its earlier list as a prefix, so the
\* list of any later state extends the list of any earlier one.
C6_HistoryAppendOnly ==
    [][\A id \in DOMAIN saved :
           IsPrefix(getUserHistory(localStorage, id), getUserHistory(localStorage', id))]_vars

\* a user holds two results, and a profile update was the last operation
C6_Witness ==
    /\ lastCall.op = "updateUser"
    /\ \E id \in DOMAIN saved : Len(getUserHistory(localStorage, id)) = MaxScans
    /\ Len(ReadUsers(localStorage)) > 0

\* the backend rejects the scan with HTTP 400 and a detail message
Rejected(response) ==
    /\ response.kind = "http" /\ response.status = 400 /\ response.parses
    /\ response.detail # None /\ response.detail # Some(<<>>)

\* C7: when the structured backend answers a scan with HTTP 400 and a detail
\* message, analyzeNailImage throws an Error with exactly that message and
\* nothing is persisted: onResult is not called, so localStorage (every user's
\* persisted history), the in-memory history, the selected result and the
\* view stay as they were; the Scan page that is still shown displays the
\* message.
C7_RejectedScanPersistsNothing ==
    [][\A response \in AppResponses, now \in Timestamps :
           (Rejected(response) /\ ScanAnalyzeAnswered(response, now))
           => LET req == scan.pending[1]
                  out == ApiAnalyzeNailImage(response, req.image, generateUUID(uuidCount), now)
              IN  /\ ~out.ok
                  /\ out.message = response.detail[1]
                  /\ localStorage' = localStorage
                  /\ saved' = saved
                  /\ \A id \in DOMAIN saved :
                         getUserHistory(localStorage', id) = getUserHistory(localStorage, id)
                  /\ history' = history
                  /\ selectedResult' = selectedResult
                  /\ currentView' = currentView
                  /\ user' = user
                  /\ req.live => /\ scan'.error = response.detail
                                 /\ ~scan'.isProcessing
                                 /\ currentView' = "SCAN"]_vars

\* a user with one stored result scanned again and was rejected: the Scan page
\* shows the backend's message and the history still holds the one result
C7_Witness ==
    /\ user # None
    /\ currentView = "SCAN"
    /\ scan.error = Some(<<"N", "o", " ", "h", "a", "n", "d", " ", "d", "e", "t", "e", "c", "t", "e", "d", " ", "i", "n", " ", "i", "m", "a", "g", "e">>)
    /\ ~scan.isProcessing
    /\ Len(history) = 1
    /\ getUserHistory(localStorage, user[1].id) = history

\* what localStorage holds, read without the storage service
PersistedHistory(ls, id) ==
    IF (HISTORY_TABLE_PREFIX \o id) \in DOMAIN ls THEN ls[HISTORY_TABLE_PREFIX \o id].json
    ELSE <<>>
PersistedUsers(ls) == IF USERS_TABLE \in DOMAIN ls THEN ls[USERS_TABLE].json ELSE <<>>
SessionPresent(ls) == CURRENT_SESSION_KEY \in DOMAIN ls
HistoriesUnchanged ==
    \A id \in DOMAIN saved :
        getItem(localStorage', HISTORY_TABLE_PREFIX \o id)
            = getItem(localStorage, HISTORY_TABLE_PREFIX \o id)

\* C15: when a scan completes with an AnalysisResult while a user is logged
\* in, the result is persisted under the current user's id, appended to the
\* end of the in-memory history, selected, and the view becomes RESULT; when
\* no user is logged in none of these happens.
C15_ScanCompletion ==
    [][\A response \in AppResponses, now \in Timestamps :
           (IsSuccess(response) /\ ScanAnalyzeAnswered(response, now))
           => LET out == ApiAnalyzeNailImage(response, scan.pending[1].image,
                                             generateUUID(uuidCount), now)
                  result == out.result[1]
              IN  IF user # None
                  THEN /\ PersistedHistory(localStorage', user[1].id)
                              = Append(PersistedHistory(localStorage, user[1].id), result)
                       /\ \A id \in DOMAIN saved \ {user[1].id} :
                              PersistedHistory(localStorage', id)
                                  = PersistedHistory(localStorage, id)
                       /\ history' = Append(history, result)
                       /\ selectedResult' = Some(result)
                       /\ currentView' = "RESULT"
                  ELSE /\ localStorage' = localStorage
                       /\ history' = history
                       /\ selectedResult' = selectedResult
                       /\ currentView' = currentView]_vars

\* C16: when the user signs out, the session pointer is removed, the
\* in-memory user becomes none, the in-memory history empty, the selected
\* result none and the view HOME; the users table and every persisted history
\* list are unchanged.
C16_SignOut ==
    [][ProfileLogout
       => /\ ~SessionPresent(localStorage')
          /\ user' = None
          /\ history' = <<>>
          /\ selectedResult' = None
          /\ currentView' = "HOME"
          /\ getItem(localStorage', USERS_TABLE) = getItem(localStorage, USERS_TABLE)
          /\ HistoriesUnchanged]_vars

\* a user with a stored result has signed out: no session, no in-memory user,
\* history or selection, the HOME view, and the stored result still there
C16_Witness ==
    /\ ~isLoadingAuth
    /\ user = None
    /\ ~SessionPresent(localStorage)
    /\ history = <<>> /\ selectedResult = None /\ currentView = "HOME"
    /\ Len(PersistedUsers(localStorage)) = Cardinality(Emails)
    /\ \E id \in DOMAIN saved : Len(PersistedHistory(localStorage, id)) = 1

\* the step of the mount effect
MountStep == isLoadingAuth /\ ~isLoadingAuth'

\* C17: whenever the controller establishes its in-memory user, at startup
\* from a persisted session or after a successful login or registration, the
\* in-memory history becomes exactly the stored history list of that user's
\* id; at startup without a persisted session the user stays none and the
\* history stays empty.
C17_HistoryLoadedWithUser ==
    [][/\ MountStep
           => IF SessionPresent(localStorage)
              THEN /\ user' = Some(localStorage[CURRENT_SESSION_KEY].json)
                   /\ history' = PersistedHistory(localStorage', user'[1].id)
              ELSE user' = None /\ history' = <<>>
       /\ (AuthAnsweredStep /\ ~AttemptFails(localStorage, auth.pending[1].form))
           => /\ user' # None
              /\ user'[1].email = auth.pending[1].form.email
              /\ history' = PersistedHistory(localStorage', user'[1].id)]_vars

\* a user is logged in whose in-memory history is the stored one-entry list
\* while nothing is selected: the selection was dropped by a sign-out or a
\* reload after the scan, and the history was loaded again with the user
C17_Witness ==
    /\ user # None
    /\ selectedResult = None
    /\ Len(history) = 1
    /\ history = PersistedHistory(localStorage, user[1].id)
    /\ scan.pending = None

\* C18: selecting an entry of the history sets the selected result to that
\* entry and the view to RESULT, and leaves the in-memory history and user,
\* the persisted histories, the users table and the session pointer unchanged.
C18_SelectFrame ==
    [][\A i \in 1..Len(history) :
           SelectEntry(i)
           => /\ selectedResult' = Some(history[i])
              /\ currentView' = "RESULT"
              /\ history' = history
              /\ user' = user
              /\ localStorage' = localStorage
              /\ HistoriesUnchanged
              /\ getItem(localStorage', USERS_TABLE) = getItem(localStorage, USERS_TABLE)
              /\ getItem(localStorage', CURRENT_SESSION_KEY)
                     = getItem(localStorage, CURRENT_SESSION_KEY)]_vars

\* the stored entry of the history is selected and shown, with no analysis
\* outstanding
C18_Witness ==
    /\ user # None
    /\ currentView = "RESULT"
    /\ Len(history) = 1
    /\ selectedResult = Some(history[1])
    /\ scan.pending = None
    /\ history = PersistedHistory(localStorage, user[1].id)

\* C19: updateUser(u) sets the session pointer to u and replaces the row of
\* the users table whose id is u.id by u; every other row, the order of the
\* rows and all history lists are unchanged; when no row has u.id, or there
\* is no users table, no error is raised and the users table is unchanged.
C19_UpdateUser ==
    [][\A u \in UserArgs :
           SUpdateUserWith(u)
           => LET before == PersistedUsers(localStorage)
                  after == PersistedUsers(localStorage')
              IN  /\ lastCall'.ok /\ lastCall'.error = ""
                  /\ SessionPresent(localStorage')
                  /\ getCurrentUser(localStorage') = Some(u)
                  /\ Len(after) = Len(before)
                  /\ \A i \in 1..Len(before) :
                         after[i] = IF before[i].id = u.id THEN u ELSE before[i]
                  /\ (USERS_TABLE \in DOMAIN localStorage')
                         = (USERS_TABLE \in DOMAIN localStorage)
                  /\ (\A i \in 1..Len(before) : before[i].id # u.id)
                         => getItem(localStorage', USERS_TABLE)
                                = getItem(localStorage, USERS_TABLE)
                  /\ HistoriesUnchanged]_vars

\* updateUser was called with a user no row has: the session holds it and the
\* users table still holds its two rows
C19_Witness ==
    /\ lastCall.op = "updateUser"
    /\ lastCall.ok
    /\ SessionPresent(localStorage)
    /\ localStorage[CURRENT_SESSION_KEY].json.id = "no-such-id"
    /\ Len(PersistedUsers(localStorage)) = MaxUsers
    /\ \A i \in 1..MaxUsers : PersistedUsers(localStorage)[i].id # "no-such-id"

(***************************************************************************)
(* Further claims about the Analysis Gateway, checked under GatewaySpec.   *)
(***************************************************************************)
\* C21: every AnalysisResult returned by analyze (structured backend, parsed
\* generative response, synthetic generator) has an anemia_class that is one
\* of Normal, Mild, Moderate, Severe, whatever label text was returned.
C21_ClassEnumerated ==
    Returns => TheResult.anemia_class \in AnemiaClass

(***************************************************************************)
(* Further claims about the Session & History Store, checked under         *)
(* StoreSpec.                                                              *)
(***************************************************************************)
UsersTableUnchanged == getItem(localStorage', USERS_TABLE) = getItem(localStorage, USERS_TABLE)

\* C22: the users table only grows and its identities are stable: no
\* operation removes a row or changes a row's id; login, logout,
\* getCurrentUser, saveScan and getUserHistory leave the table unchanged; a
\* register that returns appends exactly one row (one that is refused adds
\* none); updateUser changes at most the content of the rows whose id matches.
C22_UsersTableGrows ==
    [][LET before == PersistedUsers(localStorage)
           after == PersistedUsers(localStorage')
       IN  /\ Len(after) >= Len(before)
           /\ \A i \in 1..Len(before) : after[i].id = before[i].id
           /\ lastCall'.op \in {"login", "logout", "getCurrentUser", "saveScan",
                                "getUserHistory"}
                  => UsersTableUnchanged
           /\ lastCall'.op = "register"
                  => IF lastCall'.ok
                     THEN /\ Len(after) = Len(before) + 1
                          /\ after = Append(before, lastCall'.value)
                     ELSE UsersTableUnchanged
           /\ \A u \in UserArgs :
                  SUpdateUserWith(u)
                  => /\ Len(after) = Len(before)
                     /\ \A i \in 1..Len(before) :
                            before[i].id # u.id => after[i] = before[i]]_vars

\* the table holds its two rows in the order of registration, and the last
\* call was an updateUser that changed the content of the first row
C22_Witness ==
    /\ lastCall.op = "updateUser"
    /\ Len(PersistedUsers(localStorage)) = MaxUsers
    /\ \A i \in 1..MaxUsers : PersistedUsers(localStorage)[i].id = generateUUID(i - 1)
    /\ PersistedUsers(localStorage)[1].shareData
    /\ ~PersistedUsers(localStorage)[2].shareData

\* C23: histories are isolated per user: saveScan(userId, r) changes only the
\* history list keyed by userId and leaves the lists of all other users, the
\* users table and the session pointer unchanged, so getUserHistory(u) is
\* exactly the results that were saved with id u.
C23_HistoriesIsolated ==
    /\ [](\A id \in UserIdArgs : getUserHistory(localStorage, id) = saved[id])
    /\ [][lastCall'.op = "saveScan"
          => /\ \A id \in UserIdArgs :
                    saved'[id] = saved[id]
                    => getItem(localStorage', HISTORY_TABLE_PREFIX \o id)
                           = getItem(localStorage, HISTORY_TABLE_PREFIX \o id)
             /\ \E id \in UserIdArgs :
                    /\ \A other \in UserIdArgs \ {id} : saved'[other] = saved[other]
                    /\ PersistedHistory(localStorage', id)
                           = Append(PersistedHistory(localStorage, id),
                                    StoreResult(SavedScans + 1))
                    /\ DOMAIN localStorage'
                           = (DOMAIN localStorage) \cup {HISTORY_TABLE_PREFIX \o id}
             /\ UsersTableUnchanged
             /\ getItem(localStorage', CURRENT_SESSION_KEY)
                    = getItem(localStorage, CURRENT_SESSION_KEY)]_vars

\* one result was saved under each of two ids, the second while a session and
\* a users table existed: each list holds its own result only
C23_Witness ==
    /\ lastCall.op = "saveScan"
    /\ lastCall.hadSession
    /\ SessionPresent(localStorage)
    /\ \A id \in UserIdArgs :
           /\ Len(saved[id]) = 1
           /\ PersistedHistory(localStorage, id) = saved[id]
    /\ PersistedHistory(localStorage, generateUUID(0))
           # PersistedHistory(localStorage, "no-such-id")

(***************************************************************************)
(* Further claims about the application, checked under Spec.               *)
(***************************************************************************)
\* C24: once logout() has run, the session pointer stays absent until a later
\* register or login succeeds, also when an updateUser call started from the
\* profile toggle before the logout resumes after it: the only step that
\* makes an absent session pointer present is a successful login or register.
C24_SessionStaysAbsent ==
    [][(~SessionPresent(localStorage) /\ SessionPresent(localStorage'))
       => (AuthAnsweredStep /\ ~AttemptFails(localStorage, auth.pending[1].form))]_vars

\* C25: after the controller's logout handler has run, its in-memory user
\* stays none until handleLogin is called by a successful login or
\* registration, also when the completion callback of a pending share-data
\* toggle fires after the logout: within one run of the page, the only step
\* that turns a none user into a user is a successful login or register (the
\* mount effect of a newly loaded page restores a persisted session).
C25_UserStaysNone ==
    [][(user = None /\ user' # None)
       => \/ MountStep
          \/ (AuthAnsweredStep /\ ~AttemptFails(localStorage, auth.pending[1].form))]_vars

\* no handler is between its two halves, and the mount effect has run
Quiescent ==
    /\ ~isLoadingAuth
    /\ auth.pending = None
    /\ scan.pending = None
    /\ profile.pending = None

\* C26: whenever a user is logged in and no handler is mid-execution, the
\* controller's in-memory history equals the store's persisted history list
\* of that user, also when an analysis started under one session completes
\* after a logout and a login of another user.
C26_HistoryMatchesStore ==
    (user # None /\ Quiescent) => history = PersistedHistory(localStorage, user[1].id)

\* C27: a user never sees another user's result: whenever a user is logged in
\* and the selected-result slot is non-empty, the selected result is an entry
\* of that user's persisted history, in every interleaving of scan completion
\* with logout and login.
C27_SelectedIsOwn ==
    (user # None /\ selectedResult # None)
        => \E i \in 1..Len(PersistedHistory(localStorage, user[1].id)) :
               PersistedHistory(localStorage, user[1].id)[i] = selectedResult[1]

\* C28: whenever a user is logged in and the current view is RESULT, the
\* selected-result slot is non-empty, for every sequence of navigation
\* actions starting from startup with or without a restored session.
C28_ResultViewHasSelection ==
    (user # None /\ currentView = "RESULT") => selectedResult # None

\* C29: whenever the session pointer is present, the users table contains a
\* row with the same id and that row is equal to the user stored in the
\* session pointer, in every state reachable through register, login, logout
\* and updateUser as the application calls them.
C29_SessionRowAgrees ==
    SessionPresent(localStorage)
        => LET session == localStorage[CURRENT_SESSION_KEY].json
               users == PersistedUsers(localStorage)
           IN  /\ \E i \in 1..Len(users) : users[i].id = session.id
               /\ \A i \in 1..Len(users) : users[i].id = session.id => users[i] = session

\* the session holds a user whose share-data flag was switched on by the
\* profile toggle, and so does that user's row of the two-row table
C29_Witness ==
    /\ SessionPresent(localStorage)
    /\ localStorage[CURRENT_SESSION_KEY].json.shareData
    /\ Len(PersistedUsers(localStorage)) = 2
    /\ \E i \in 1..2 : PersistedUsers(localStorage)[i] = localStorage[CURRENT_SESSION_KEY].json
    /\ profile.pending = None

====
